---------------------------- MODULE Spec2Model ----------------------------
(***************************************************************************)
(* A model of the `polynomials` crate: the sparse coefficient store, the   *)
(* core operations, the arithmetic engine, the parser and the renderer.    *)
(*                                                                         *)
(* Coefficients are f64 in src/src/polynomial/arithmetic and lib.rs.  The  *)
(* model keeps the shape of a binary floating-point format at a reduced    *)
(* width: a finite value is an integer count k of the smallest positive    *)
(* value 2^-FracBits, it carries at most Precision significant bits, and   *)
(* every operation rounds its exact result to the nearest such value, ties *)
(* to even.  A result larger than MaxK, and a division by zero, is the     *)
(* single value NonFinite (f64's inf and NaN).                             *)
(***************************************************************************)
EXTENDS Integers, Sequences, FiniteSets, TLC

VARIABLES
    poly,       \* the polynomial `self`: its coefficient map, power -> value
    arg,        \* the right-hand polynomial operand of the last operation
    scalar,     \* the scalar (coefficient) operand of the last operation
    expo,       \* the exponent operand of the last operation
    vec,        \* the coefficient vector given to the last from_coefficients
    op,         \* the last public operation
    pre,        \* `poly` as it was when the last operation was called
    failure,    \* the panic message of the last operation, "" when it returned
    steps,      \* operations performed so far
    pc,         \* position of the running call: "idle", "loop", "done", "panicked"
    numerator,  \* divide_in_place: the numerator, which becomes the remainder
    denominator,\* divide_in_place: the denominator
    quotient,   \* divide_in_place: the quotient built so far
    n0,         \* the numerator as passed to divide_in_place
    iters,      \* iterations of the long-division loop performed, up to MaxIter
    parity,     \* parity of the number of iterations performed
    trace,      \* per iteration: degree of the remainder before and after
    exact,      \* no coefficient operation of the loop has rounded so far
    fin,        \* inputs of the pure operations: [p, q, x, v]
    fout,       \* the last pure operation and its result: [fn, val]
    text,       \* the rendering: [of, chars], the polynomial and its string
    parsed      \* the result of from_str: [of, input, result]

vars == <<poly, arg, scalar, expo, vec, op, pre, failure, steps, pc, numerator,
          denominator, quotient, n0, iters, parity, trace, exact, fin, fout, text,
          parsed>>

storeVars == <<poly, arg, scalar, expo, vec, op, pre, failure, steps>>
divVars == <<pc, numerator, denominator, quotient, n0, iters, parity, trace, exact>>
fnVars == <<fin, fout, text, parsed>>

-----------------------------------------------------------------------------
(* Bounds of the model *)

\* Fraction bits: the smallest positive coefficient is 2^-FracBits.
FracBits == 2
\* Significant bits of a coefficient.
Precision == 4
\* Largest finite coefficient, in units of 2^-FracBits.
MaxK == 4096
\* Largest exponent an operation is given.
MaxPow == 2
\* Longest coefficient vector given to from_coefficients.
MaxLen == 3
\* Operations performed in one run of the store machine.
MaxSteps == 1
\* Iterations of the long-division loop that are followed.
MaxIter == 6

\* The longest string given to the parsers.
MaxText == 4

-----------------------------------------------------------------------------
(* The coefficient domain: f64 at reduced width *)

\* Option<u32>::None, the degree of the zero polynomial.
None == -1

RECURSIVE Pow2(_)
Pow2(n) == IF n <= 0 THEN 1 ELSE 2 * Pow2(n - 1)

Abs(a) == IF a < 0 THEN -a ELSE a

\* The value 1.0 (T::one()).
One == Pow2(FracBits)

\* inf or NaN.
NonFinite == MaxK + 1

IsFinite(a) == a # NonFinite

\* The spacing of the representable values around n/d.
RECURSIVE Quantum(_, _)
Quantum(n, d) == IF n < d * Pow2(Precision) THEN 1 ELSE 2 * Quantum(n, 2 * d)

\* n/d rounded to the nearest integer, ties to even.
RoundHalfEven(n, d) ==
    LET q == n \div d
        r == n % d
    IN  IF 2 * r < d THEN q
        ELSE IF 2 * r > d THEN q + 1
        ELSE IF q % 2 = 0 THEN q ELSE q + 1

\* The magnitude n/d (n >= 0, d > 0) rounded to a representable magnitude.
RoundMag(n, d) == LET s == Quantum(n, d) IN RoundHalfEven(n, d * s) * s

\* The rational n/d (d > 0) as a coefficient value.
Norm(n, d) ==
    LET m == RoundMag(Abs(n), d)
    IN  IF m > MaxK THEN NonFinite ELSE IF n < 0 THEN -m ELSE m

Representable(k) == k \in -MaxK..MaxK /\ Norm(k, 1) = k

FAdd(a, b) == IF IsFinite(a) /\ IsFinite(b) THEN Norm(a + b, 1) ELSE NonFinite
FSub(a, b) == IF IsFinite(a) /\ IsFinite(b) THEN Norm(a - b, 1) ELSE NonFinite
FMul(a, b) ==
    IF IsFinite(a) /\ IsFinite(b) THEN Norm(a * b, Pow2(FracBits)) ELSE NonFinite
FDiv(a, b) ==
    IF IsFinite(a) /\ IsFinite(b) /\ b # 0
    THEN Norm((IF b < 0 THEN -a ELSE a) * Pow2(FracBits), Abs(b))
    ELSE NonFinite
FNeg(a) == IF IsFinite(a) THEN -a ELSE NonFinite

\* u32 -> f64.
FromU32(n) == Norm(n * One, 1)

\* The operation returned the exact result.
AddExact(a, b) == Representable(a + b)
MulExact(a, b) == (a * b) % Pow2(FracBits) = 0 /\ Representable((a * b) \div Pow2(FracBits))
DivExact(a, b) ==
    /\ b # 0
    /\ (Abs(a) * Pow2(FracBits)) % Abs(b) = 0
    /\ Representable((Abs(a) * Pow2(FracBits)) \div Abs(b))

-----------------------------------------------------------------------------
(* The coefficient store: src/src/polynomial.rs, polynomial/coefficients.rs *)

SetMax(S) == CHOOSE m \in S : \A y \in S : y <= m
SetMin(S) == CHOOSE m \in S : \A y \in S : m <= y

\* Polynomial::zero(): the empty map.
zero == [k \in {} |-> 0]

\* BTreeMap::insert and BTreeMap::remove.
MapInsert(m, k, v) == [j \in DOMAIN m \cup {k} |-> IF j = k THEN v ELSE m[j]]
MapRemove(m, k) == [j \in DOMAIN m \ {k} |-> m[j]]

is_zero(p) == DOMAIN p = {}

degree(p) == IF DOMAIN p = {} THEN None ELSE SetMax(DOMAIN p)

set_coefficient_at_skipping_check(p, power, coefficient) ==
    MapInsert(p, power, coefficient)

\* set_coefficient_at emptying the whole map when the coefficient is zero.
set_coefficient_at_clearing_on_zero(p, power, coefficient) ==
    IF coefficient = 0 THEN zero ELSE MapInsert(p, power, coefficient)

set_coefficient_at(p, power, coefficient) ==
    IF coefficient = 0 THEN MapRemove(p, power)
    ELSE MapInsert(p, power, coefficient)

get_coefficient_at(p, power) == IF power \in DOMAIN p THEN p[power] ELSE 0

add_coefficient_at(p, power, coefficient) ==
    set_coefficient_at(p, power, FAdd(get_coefficient_at(p, power), coefficient))

sub_coefficient_at(p, power, coefficient) ==
    set_coefficient_at(p, power, FSub(get_coefficient_at(p, power), coefficient))

mul_coefficient_at(p, power, coefficient) ==
    set_coefficient_at(p, power, FMul(get_coefficient_at(p, power), coefficient))

div_coefficient_at(p, power, coefficient) ==
    set_coefficient_at(p, power, FDiv(get_coefficient_at(p, power), coefficient))

\* The loop of from_coefficients from position i of the vector on.
RECURSIVE FromCoefficientsFrom(_, _, _)
FromCoefficientsFrom(p, coefficients, i) ==
    IF i > Len(coefficients) THEN p
    ELSE FromCoefficientsFrom(
            set_coefficient_at(p, Len(coefficients) - i, coefficients[i]),
            coefficients, i + 1)

from_coefficients(coefficients) == FromCoefficientsFrom(zero, coefficients, 1)

Zeros(n) == [i \in 1..n |-> 0]

\* The loop of get_coefficients over the stored powers `keys`, highest first.
RECURSIVE GetCoefficientsLoop(_, _, _, _)
GetCoefficientsLoop(p, keys, last_power, result) ==
    IF keys = {}
    THEN IF last_power # None /\ last_power > 0
         THEN result \o Zeros(last_power)
         ELSE result
    ELSE LET power == SetMax(keys)
             skipped_powers_count ==
                 IF last_power # None THEN last_power - power - 1 ELSE 0
         IN  GetCoefficientsLoop(p, keys \ {power}, power,
                 result \o Zeros(skipped_powers_count) \o <<p[power]>>)

get_coefficients_dropping_trailing(p) ==
    LET r == GetCoefficientsLoop(p, DOMAIN p, None, <<>>)
    IN  IF is_zero(p) THEN r ELSE SubSeq(r, 1, Len(r) - SetMin(DOMAIN p))

get_coefficients(p) == GetCoefficientsLoop(p, DOMAIN p, None, <<>>)

clear(p) == zero


-----------------------------------------------------------------------------
(* Core operations: src/src/polynomial.rs *)

RECURSIVE IntPow(_, _)
IntPow(a, n) == IF n <= 0 THEN 1 ELSE a * IntPow(a, n - 1)

\* x.pow(n) for a whole n >= 0 (f64::powf): the exact power, rounded once.
FPow(x, n) ==
    IF ~IsFinite(x) THEN NonFinite
    ELSE IF n = 0 THEN One
    ELSE Norm(IntPow(x, n), IntPow(Pow2(FracBits), n - 1))

\* The loop of evaluate over the stored powers `keys`, highest first.
RECURSIVE EvaluateLoop(_, _, _, _, _)
EvaluateLoop(p, x, keys, last_power, result) ==
    IF keys = {} THEN result
    ELSE LET power == SetMax(keys)
             scaled == IF last_power # None
                       THEN FMul(result, FPow(x, last_power - power))
                       ELSE result
         IN  EvaluateLoop(p, x, keys \ {power}, power, FAdd(scaled, p[power]))

evaluate(p, x) == EvaluateLoop(p, x, DOMAIN p, None, 0)

\* The loop of derivative over the stored powers `keys`, lowest first.
RECURSIVE DerivativeLoop(_, _, _)
DerivativeLoop(p, keys, result) ==
    IF keys = {} THEN result
    ELSE LET power == SetMin(keys)
         IN  DerivativeLoop(p, keys \ {power},
                 IF power < 1 THEN result
                 ELSE set_coefficient_at(result, power - 1,
                                         FMul(p[power], FromU32(power))))

\* derivative moving every coefficient one exponent down without scaling it.
derivative_without_scaling(p) ==
    [k \in {power - 1 : power \in DOMAIN p \ {0}} |-> p[k + 1]]

\* derivative taking the term of the highest power only.
derivative_of_leading_term(p) ==
    IF DOMAIN p = {} THEN zero
    ELSE DerivativeLoop(p, {SetMax(DOMAIN p)}, zero)

derivative(p) == DerivativeLoop(p, DOMAIN p, zero)

-----------------------------------------------------------------------------
(* The arithmetic engine: src/src/polynomial/arithmetic *)

\* The loop of add_in_place over the powers `keys` of poly2, lowest first.
RECURSIVE AddLoop(_, _, _)
AddLoop(poly1, poly2, keys) ==
    IF keys = {} THEN poly1
    ELSE LET power == SetMin(keys)
         IN  AddLoop(add_coefficient_at(poly1, power, poly2[power]),
                     poly2, keys \ {power})

add_in_place(poly1, poly2) == AddLoop(poly1, poly2, DOMAIN poly2)

\* The loop of subtract_in_place over the powers `keys` of poly2.
RECURSIVE SubLoop(_, _, _)
SubLoop(poly1, poly2, keys) ==
    IF keys = {} THEN poly1
    ELSE LET power == SetMin(keys)
         IN  SubLoop(sub_coefficient_at(poly1, power, poly2[power]),
                     poly2, keys \ {power})

subtract_in_place(poly1, poly2) == SubLoop(poly1, poly2, DOMAIN poly2)

\* The inner loop of multiply: one term of poly1 against the terms of poly2.
RECURSIVE MultiplyInner(_, _, _, _, _)
MultiplyInner(prod, power, coefficient, poly2, keys) ==
    IF keys = {} THEN prod
    ELSE LET other_power == SetMin(keys)
         IN  MultiplyInner(
                 add_coefficient_at(prod, power + other_power,
                                    FMul(coefficient, poly2[other_power])),
                 power, coefficient, poly2, keys \ {other_power})

\* The outer loop of multiply over the powers `keys` of poly1.
RECURSIVE MultiplyOuter(_, _, _, _)
MultiplyOuter(prod, poly1, poly2, keys) ==
    IF keys = {} THEN prod
    ELSE LET power == SetMin(keys)
         IN  MultiplyOuter(
                 MultiplyInner(prod, power, poly1[power], poly2, DOMAIN poly2),
                 poly1, poly2, keys \ {power})

\* multiply keeping only the last product that lands on an exponent.
RECURSIVE MultiplyInnerSet(_, _, _, _, _)
MultiplyInnerSet(prod, power, coefficient, poly2, keys) ==
    IF keys = {} THEN prod
    ELSE LET other_power == SetMin(keys)
         IN  MultiplyInnerSet(
                 set_coefficient_at(prod, power + other_power,
                                    FMul(coefficient, poly2[other_power])),
                 power, coefficient, poly2, keys \ {other_power})

RECURSIVE MultiplyOuterSet(_, _, _, _)
MultiplyOuterSet(prod, poly1, poly2, keys) ==
    IF keys = {} THEN prod
    ELSE LET power == SetMin(keys)
         IN  MultiplyOuterSet(
                 MultiplyInnerSet(prod, power, poly1[power], poly2, DOMAIN poly2),
                 poly1, poly2, keys \ {power})

multiply_overwriting(poly1, poly2) == MultiplyOuterSet(zero, poly1, poly2, DOMAIN poly1)

multiply(poly1, poly2) == MultiplyOuter(zero, poly1, poly2, DOMAIN poly1)

\* multiply_in_place_by_scalar without its early return for the scalar zero.
multiply_in_place_by_scalar_without_zero_case(p, s) ==
    [k \in DOMAIN p |-> FMul(p[k], s)]

multiply_in_place_by_scalar(p, s) ==
    IF s = 0 THEN zero
    ELSE [k \in DOMAIN p |-> FMul(p[k], s)]

neg(p) == [k \in DOMAIN p |-> FMul(p[k], -One)]

\* leading_term: Term { coefficient, power }.
leading_term(p) ==
    [coefficient |-> get_coefficient_at(p, degree(p)), power |-> degree(p)]

divide_terms(term1, term2) ==
    set_coefficient_at(zero, term1.power - term2.power,
                       FDiv(term1.coefficient, term2.coefficient))

\* The panic messages of division.rs.
PanicZeroPolynomial == "Cannot divide by the zero polynomial."
PanicZeroScalar == "Cannot divide by zero."

\* The `while` condition without the comparison of the degrees.
LoopConditionWithoutDegrees(remainder, d) == ~is_zero(remainder)

\* The condition of the `while` of divide_in_place.
LoopCondition(remainder, d) ==
    ~is_zero(remainder) /\ degree(remainder) >= degree(d)

\* An iteration that stores the quotient term in place of adding it.
LoopBodyOverwritingQuotient(q, remainder, d) ==
    LET next_quotient_term == divide_terms(leading_term(remainder), leading_term(d))
    IN  [quotient  |-> next_quotient_term,
         remainder |-> subtract_in_place(remainder, multiply(next_quotient_term, d))]

\* One iteration of the `while` of divide_in_place.
LoopBody(q, remainder, d) ==
    LET next_quotient_term == divide_terms(leading_term(remainder), leading_term(d))
    IN  [quotient  |-> add_in_place(q, next_quotient_term),
         remainder |-> subtract_in_place(remainder, multiply(next_quotient_term, d))]

\* Every coefficient operation of one iteration returns its exact result.
LoopBodyExact(q, remainder, d) ==
    LET lr == leading_term(remainder)
        ld == leading_term(d)
        t  == FDiv(lr.coefficient, ld.coefficient)
        e  == lr.power - ld.power
    IN  /\ DivExact(lr.coefficient, ld.coefficient)
        /\ AddExact(get_coefficient_at(q, e), t)
        /\ \A j \in DOMAIN d :
              /\ MulExact(t, d[j])
              /\ AddExact(get_coefficient_at(remainder, e + j), -FMul(t, d[j]))

\* divide_in_place from the loop on, followed for at most `fuel` iterations:
\* "returned" with the quotient and the remainder, or still "running".
RECURSIVE DivideLoop(_, _, _, _)
DivideLoop(q, remainder, d, fuel) ==
    IF ~LoopCondition(remainder, d)
    THEN [status |-> "returned", quotient |-> q, remainder |-> remainder]
    ELSE IF fuel = 0
    THEN [status |-> "running", quotient |-> q, remainder |-> remainder]
    ELSE LET b == LoopBody(q, remainder, d)
         IN  DivideLoop(b.quotient, b.remainder, d, fuel - 1)

\* divide_in_place: the call panics, returns, or is still in its loop.
divide_in_place(n, d) ==
    IF is_zero(d)
    THEN [status |-> "panicked", quotient |-> zero, remainder |-> n]
    ELSE DivideLoop(zero, n, d, MaxIter)

\* divide_by_scalar_in_place that checks the scalar after the loop.
divide_by_scalar_in_place_late_check(p, s) ==
    [poly |-> [k \in DOMAIN p |-> FDiv(p[k], s)],
     failure |-> IF s = 0 THEN PanicZeroScalar ELSE ""]

divide_by_scalar_in_place(p, s) ==
    IF s = 0 THEN [poly |-> p, failure |-> PanicZeroScalar]
    ELSE [poly |-> [k \in DOMAIN p |-> FDiv(p[k], s)], failure |-> ""]

\* lib.rs, DivAssign<f64> and Div<f64>: no check of the scalar.
lib_div_scalar(p, other) == [k \in DOMAIN p |-> FDiv(p[k], other)]


-----------------------------------------------------------------------------
(* Inputs *)

Powers == 0..MaxPow

\* Exponents a result can hold.
AllPowers == 0..(2 * MaxPow + MaxLen)

\* Coefficients given to the coefficient mutators: 0, the smallest positive
\* value and -1.0.
CoefInputs == {0, 1, -One}

\* Scalars given to the scalar operators: 0, the smallest positive value,
\* -1.0 and 2.0.
ScalarInputs == {0, 1, -One, 2 * One}

\* The sequences over S of length at most n.
SeqsUpTo(S, n) == UNION {[1..m -> S] : m \in 0..n}

\* Coefficient vectors given to from_coefficients: over 0, the smallest
\* positive value and -2.0.
VecInputs == SeqsUpTo({0, 1, -2 * One}, MaxLen)

\* Right-hand polynomial operands.
ArgInputs == {from_coefficients(v) : v \in SeqsUpTo({0, 2 * One}, MaxLen - 1)}

AllFinite(p) == \A k \in DOMAIN p : IsFinite(p[k])

-----------------------------------------------------------------------------
(* The store machine: a polynomial and the public operations that mutate it *)

InitIdle ==
    /\ pc = "idle" /\ numerator = zero /\ denominator = zero /\ quotient = zero
    /\ n0 = zero /\ iters = 0 /\ parity = 0 /\ trace = <<>> /\ exact = TRUE
    /\ fin = <<>> /\ fout = <<>> /\ text = <<>> /\ parsed = <<>>

\* Polynomial::from_coefficients(&v); the empty v gives Polynomial::zero().
Init ==
    /\ vec \in VecInputs
    /\ poly = from_coefficients(vec)
    /\ arg = zero /\ scalar = 0 /\ expo = 0
    /\ op = "from_coefficients" /\ pre = zero /\ failure = "" /\ steps = 0
    /\ InitIdle

\* The public operation `name` was called with the operands and left `result`.
Called(name, result, a, s, e, v, f) ==
    /\ steps < MaxSteps
    /\ steps' = steps + 1
    /\ op' = name
    /\ pre' = poly
    /\ poly' = result
    /\ arg' = a /\ scalar' = s /\ expo' = e /\ vec' = v
    /\ failure' = f
    /\ UNCHANGED <<divVars, fnVars>>

SetCoefficientAt ==
    \E e \in Powers, c \in CoefInputs :
        Called("set_coefficient_at", set_coefficient_at(poly, e, c), zero, c, e, <<>>, "")

AddCoefficientAt ==
    \E e \in Powers, c \in CoefInputs :
        /\ steps < MaxSteps /\ AllFinite(poly)
        /\ Called("add_coefficient_at", add_coefficient_at(poly, e, c), zero, c, e, <<>>, "")

SubCoefficientAt ==
    \E e \in Powers, c \in CoefInputs :
        /\ steps < MaxSteps /\ AllFinite(poly)
        /\ Called("sub_coefficient_at", sub_coefficient_at(poly, e, c), zero, c, e, <<>>, "")

MulCoefficientAt ==
    \E e \in Powers, c \in CoefInputs :
        /\ steps < MaxSteps /\ AllFinite(poly)
        /\ Called("mul_coefficient_at", mul_coefficient_at(poly, e, c), zero, c, e, <<>>, "")

DivCoefficientAt ==
    \E e \in Powers, c \in CoefInputs :
        /\ steps < MaxSteps /\ AllFinite(poly)
        /\ Called("div_coefficient_at", div_coefficient_at(poly, e, c), zero, c, e, <<>>, "")

Clear == Called("clear", clear(poly), zero, 0, 0, <<>>, "")

NextCoef ==
    \/ SetCoefficientAt
    \/ AddCoefficientAt
    \/ SubCoefficientAt
    \/ MulCoefficientAt
    \/ DivCoefficientAt
    \/ Clear

\* The coefficient mutators alone.
SpecCoef == Init /\ [][NextCoef]_vars

\* poly += q
AddAssign ==
    \E q \in ArgInputs :
        /\ steps < MaxSteps /\ AllFinite(poly)
        /\ Called("add_assign", add_in_place(poly, q), q, 0, 0, <<>>, "")

\* poly -= q
SubAssign ==
    \E q \in ArgInputs :
        /\ steps < MaxSteps /\ AllFinite(poly)
        /\ Called("sub_assign", subtract_in_place(poly, q), q, 0, 0, <<>>, "")

\* poly *= &q
MulAssign ==
    \E q \in ArgInputs :
        /\ steps < MaxSteps /\ AllFinite(poly)
        /\ Called("mul_assign", multiply(poly, q), q, 0, 0, <<>>, "")

\* poly *= s
MulAssignScalar ==
    \E s \in ScalarInputs :
        /\ steps < MaxSteps /\ AllFinite(poly)
        /\ Called("mul_assign_scalar", multiply_in_place_by_scalar(poly, s),
                  zero, s, 0, <<>>, "")

\* poly /= s (division.rs)
DivAssignScalar ==
    \E s \in ScalarInputs :
        /\ steps < MaxSteps /\ AllFinite(poly)
        /\ LET r == divide_by_scalar_in_place(poly, s)
           IN  Called("div_assign_scalar", r.poly, zero, s, 0, <<>>, r.failure)

\* poly /= s (lib.rs)
LibDivAssignScalar ==
    \E s \in ScalarInputs :
        /\ steps < MaxSteps /\ AllFinite(poly)
        /\ Called("lib_div_assign_scalar", lib_div_scalar(poly, s), zero, s, 0, <<>>, "")

\* poly = -poly
Negate ==
    /\ steps < MaxSteps /\ AllFinite(poly)
    /\ Called("neg", neg(poly), zero, 0, 0, <<>>, "")

\* poly = poly.derivative()
Derive ==
    /\ steps < MaxSteps /\ AllFinite(poly)
    /\ Called("derivative", derivative(poly), zero, 0, 0, <<>>, "")

\* n / &d: the quotient that divide_in_place returns, and `self`, which it
\* left as the remainder.
div(n, d) == divide_in_place(n, d)

\* p /= &d: `*self = divide_in_place(self, rhs)`.
div_assign(p, d) ==
    LET r == divide_in_place(p, d)
    IN  IF r.status = "panicked" THEN p ELSE r.quotient

\* p %= &d that assigns what divide_in_place returns.
rem_assign_taking_the_quotient(p, d) == div_assign(p, d)

\* p %= &d: `divide_in_place(self, rhs);`, the result is dropped.
rem_assign(p, d) == divide_in_place(p, d).remainder

\* p % &d: `divide_in_place(&mut self, rhs); self`.
rem(p, d) == divide_in_place(p, d).remainder

\* The panic message of a division of p by d, "" when it returns.
PanicOf(p, d) ==
    IF divide_in_place(p, d).status = "panicked" THEN PanicZeroPolynomial ELSE ""

\* poly /= &q.  A call that is still in its loop after MaxIter iterations is
\* not followed here (see SpecDiv).
DivAssign ==
    \E q \in ArgInputs :
        /\ steps < MaxSteps /\ AllFinite(poly)
        /\ divide_in_place(poly, q).status # "running"
        /\ Called("div_assign", div_assign(poly, q), q, 0, 0, <<>>, PanicOf(poly, q))

\* poly %= &q
RemAssign ==
    \E q \in ArgInputs :
        /\ steps < MaxSteps /\ AllFinite(poly)
        /\ divide_in_place(poly, q).status # "running"
        /\ Called("rem_assign", rem_assign(poly, q), q, 0, 0, <<>>, PanicOf(poly, q))

\* poly % &q, the value that is returned
Rem ==
    \E q \in ArgInputs :
        /\ steps < MaxSteps /\ AllFinite(poly)
        /\ divide_in_place(poly, q).status # "running"
        /\ Called("rem", rem(poly, q), q, 0, 0, <<>>, PanicOf(poly, q))

Next ==
    \/ SetCoefficientAt
    \/ AddCoefficientAt
    \/ SubCoefficientAt
    \/ MulCoefficientAt
    \/ DivCoefficientAt
    \/ Clear
    \/ AddAssign
    \/ SubAssign
    \/ MulAssign
    \/ MulAssignScalar
    \/ DivAssignScalar
    \/ LibDivAssignScalar
    \/ Negate
    \/ Derive
    \/ DivAssign
    \/ RemAssign
    \/ Rem

Spec == Init /\ [][Next]_vars

-----------------------------------------------------------------------------
(* Polynomial long division, one loop iteration per step: division.rs *)

\* Numerators: vectors over 0, the smallest positive value, 1.0, -2.0, 3.0.
NumInputs == {from_coefficients(v) : v \in SeqsUpTo({0, 1, One, -2 * One, 3 * One}, MaxLen)}

\* Denominators: vectors over 0, 1.0, 2.0 and 3.0, one shorter.
DenInputs == {from_coefficients(v) : v \in SeqsUpTo({0, One, 2 * One, 3 * One}, MaxLen - 1)}

InitStoreIdle ==
    /\ poly = zero /\ arg = zero /\ scalar = 0 /\ expo = 0 /\ vec = <<>>
    /\ op = "zero" /\ pre = zero /\ steps = 0

\* `numerator / &denominator` is about to call divide_in_place.
InitDiv ==
    /\ numerator \in NumInputs
    /\ denominator \in DenInputs
    /\ n0 = numerator
    /\ quotient = zero
    /\ pc = "idle" /\ iters = 0 /\ parity = 0 /\ trace = <<>> /\ exact = TRUE
    /\ failure = ""
    /\ fin = <<>> /\ fout = <<>> /\ text = <<>> /\ parsed = <<>>
    /\ InitStoreIdle

\* divide_in_place up to the loop: the check of the denominator.
DivCall ==
    /\ pc = "idle"
    /\ IF is_zero(denominator)
       THEN /\ pc' = "panicked"
            /\ failure' = PanicZeroPolynomial
       ELSE /\ pc' = "loop"
            /\ failure' = ""
    /\ quotient' = zero
    /\ UNCHANGED <<numerator, denominator, n0, iters, parity, trace, exact>>
    /\ UNCHANGED <<poly, arg, scalar, expo, vec, op, pre, steps, fnVars>>

\* One iteration of the `while`.  The count of iterations stops at MaxIter.
DivIter ==
    /\ pc = "loop"
    /\ LoopCondition(numerator, denominator)
    /\ LET b == LoopBody(quotient, numerator, denominator)
       IN  /\ quotient' = b.quotient
           /\ numerator' = b.remainder
           /\ trace' = [before |-> degree(numerator),
                        after  |-> degree(b.remainder),
                        term   |-> divide_terms(leading_term(numerator),
                                                leading_term(denominator))]
    /\ exact' = (exact /\ LoopBodyExact(quotient, numerator, denominator))
    /\ iters' = IF iters < MaxIter THEN iters + 1 ELSE iters
    /\ parity' = 1 - parity
    /\ UNCHANGED <<pc, denominator, n0>>
    /\ UNCHANGED <<storeVars, fnVars>>

\* The loop exits and divide_in_place returns the quotient.
DivReturn ==
    /\ pc = "loop"
    /\ ~LoopCondition(numerator, denominator)
    /\ pc' = "done"
    /\ UNCHANGED <<numerator, denominator, quotient, n0, iters, parity, trace, exact>>
    /\ UNCHANGED <<storeVars, fnVars>>

NextDiv == DivCall \/ DivIter \/ DivReturn

SpecDiv == InitDiv /\ [][NextDiv]_vars

\* The control of one iteration: the `while` condition holds and one more
\* iteration is performed.  Every DivIter step is one.
Iterate ==
    /\ pc = "loop"
    /\ LoopCondition(numerator, denominator)
    /\ parity' = 1 - parity

\* The call is a sequential program: it enters the loop, runs the next
\* iteration while the condition holds, and returns when it does not.
SpecDivFair ==
    SpecDiv /\ WF_pc(DivCall) /\ WF_parity(Iterate) /\ WF_pc(DivReturn)

-----------------------------------------------------------------------------
(* The value-returning operations, applied to constructed polynomials *)

\* Coefficient vectors of the left operand: over 0, 1.0 and -1.0.
FnVecs == SeqsUpTo({0, One, -One}, MaxLen)

\* Coefficient vectors of the right operand, one shorter.
FnVecs2 == SeqsUpTo({0, One, -One}, MaxLen - 1)

\* Points of evaluation: 0, 1.0, -1.0 and 2.0.
XInputs == {0, One, -One, 2 * One}

\* The operands: from_coefficients(&v) and from_coefficients(&w).
P == from_coefficients(fin.v)
Q == from_coefficients(fin.w)

InitFn ==
    /\ fin \in [v : FnVecs, w : FnVecs2, x : XInputs]
    /\ fout = [fn |-> "none", val |-> 0]
    /\ text = <<>> /\ parsed = <<>>
    /\ failure = ""
    /\ pc = "idle" /\ numerator = zero /\ denominator = zero /\ quotient = zero
    /\ n0 = zero /\ iters = 0 /\ parity = 0 /\ trace = <<>> /\ exact = TRUE
    /\ InitStoreIdle

\* The operation `name` returned `value`.
Returned(name, value) ==
    /\ fout' = [fn |-> name, val |-> value]
    /\ UNCHANGED <<fin, text, parsed, storeVars, divVars>>

Evaluate == Returned("evaluate", evaluate(P, fin.x))

GetCoefficients == Returned("get_coefficients", get_coefficients(P))

Multiply == Returned("multiply", multiply(P, Q))

NextFn ==
    \/ Evaluate
    \/ GetCoefficients
    \/ Multiply

SpecFn == InitFn /\ [][NextFn]_vars

-----------------------------------------------------------------------------
(* Sums and derivatives of two polynomials *)

\* The operands: from_coefficients(&v) * s and from_coefficients(&w), for v
\* over 0, the smallest positive value and 7 quanta, w over 0 and 3 quanta,
\* both up to exponent MaxLen, and s 1.0 or the smallest positive value.
Poly1 == multiply_in_place_by_scalar(from_coefficients(fin.v), fin.s)
Poly2 == from_coefficients(fin.w)

InitSum ==
    /\ fin \in [v : SeqsUpTo({0, 1, 7}, MaxLen + 1),
                 w : SeqsUpTo({0, 3}, MaxLen + 1),
                 s : {One, 1}]
    /\ fout = [fn |-> "none", val |-> 0]
    /\ text = <<>> /\ parsed = <<>>
    /\ failure = ""
    /\ pc = "idle" /\ numerator = zero /\ denominator = zero /\ quotient = zero
    /\ n0 = zero /\ iters = 0 /\ parity = 0 /\ trace = <<>> /\ exact = TRUE
    /\ InitStoreIdle

\* poly1 + poly2 and poly2 + poly1.
Add ==
    Returned("add", [sum     |-> add_in_place(Poly1, Poly2),
                     swapped |-> add_in_place(Poly2, Poly1)])

\* poly1 += poly2; the value left in poly1.
AddAssignOwned == Returned("add_assign", add_in_place(Poly1, Poly2))

\* (poly1 + poly2).derivative() and poly1.derivative() + poly2.derivative().
DerivativeOfSum ==
    Returned("derivative",
             [of_sum |-> derivative(add_in_place(Poly1, Poly2)),
              sum_of |-> add_in_place(derivative(Poly1), derivative(Poly2))])

NextSum ==
    \/ Add
    \/ AddAssignOwned
    \/ DerivativeOfSum

SpecSum == InitSum /\ [][NextSum]_vars

-----------------------------------------------------------------------------
(* The renderer: src/src/polynomial/display.rs.  A string is a sequence of  *)
(* one-character strings.                                                   *)

DigitChars == <<"0", "1", "2", "3", "4", "5", "6", "7", "8", "9">>

\* The decimal digits of a natural number (Display of u32).
RECURSIVE FormatNat(_)
FormatNat(n) ==
    IF n < 10 THEN <<DigitChars[n + 1]>>
    ELSE FormatNat(n \div 10) \o <<DigitChars[(n % 10) + 1]>>

\* The decimal digits of the fraction r / 2^FracBits, 0 < r < 2^FracBits.
RECURSIVE FormatFraction(_)
FormatFraction(r) ==
    LET d    == (10 * r) \div Pow2(FracBits)
        rest == (10 * r) % Pow2(FracBits)
    IN  <<DigitChars[d + 1]>> \o (IF rest = 0 THEN <<>> ELSE FormatFraction(rest))

\* write!(w, "{}", self.abs()) of a finite f64: the shortest decimal that
\* reads back as the value, without an exponent and without ".0".
FormatAbs(c) ==
    LET a == Abs(c)
    IN  FormatNat(a \div Pow2(FracBits))
        \o (IF a % Pow2(FracBits) = 0 THEN <<>>
            ELSE <<".">> \o FormatFraction(a % Pow2(FracBits)))

\* format_coefficient without the exception for the last term: a constant
\* of absolute value one loses its value.
format_coefficient_eliding_constant(c, is_leading_term, is_last_term) ==
    (IF is_leading_term /\ c < 0 THEN <<"-", " ">>
     ELSE IF ~is_leading_term THEN <<" ", IF c < 0 THEN "-" ELSE "+", " ">>
     ELSE <<>>)
    \o (IF Abs(c) # One THEN FormatAbs(c) ELSE <<>>)

\* format_coefficient of the simple types.
format_coefficient(c, is_leading_term, is_last_term) ==
    (IF is_leading_term /\ c < 0 THEN <<"-", " ">>
     ELSE IF ~is_leading_term THEN <<" ", IF c < 0 THEN "-" ELSE "+", " ">>
     ELSE <<>>)
    \o (IF Abs(c) # One \/ is_last_term THEN FormatAbs(c) ELSE <<>>)

\* The indeterminate and the power of one term.
FormatPower(power, string_format) ==
    IF power = 0 THEN <<>>
    ELSE IF power = 1 THEN <<"x">>
    ELSE IF string_format = "Latex" THEN <<"x", "^", "{">> \o FormatNat(power) \o <<"}">>
    ELSE IF string_format = "Concise" THEN <<"x">> \o FormatNat(power)
    ELSE <<"x", "^">> \o FormatNat(power)

\* The loop of write_to_fmt without `.rev()`: from the lowest power up.
RECURSIVE WriteLoopAscending(_, _, _)
WriteLoopAscending(p, keys, string_format) ==
    IF keys = {} THEN <<>>
    ELSE LET power == SetMin(keys)
             term  == IF p[power] = 0 THEN <<>>
                      ELSE format_coefficient(p[power], power = degree(p), power = 0)
                           \o FormatPower(power, string_format)
         IN  term \o WriteLoopAscending(p, keys \ {power}, string_format)

\* The loop of write_to_fmt over the powers `keys`, from the highest down.
RECURSIVE WriteLoop(_, _, _)
WriteLoop(p, keys, string_format) ==
    IF keys = {} THEN <<>>
    ELSE LET power == SetMax(keys)
             term  == IF p[power] = 0 THEN <<>>
                      ELSE format_coefficient(p[power], power = degree(p), power = 0)
                           \o FormatPower(power, string_format)
         IN  term \o WriteLoop(p, keys \ {power}, string_format)

write_to_fmt(p, string_format) ==
    IF degree(p) = None THEN <<"0">>
    ELSE WriteLoop(p, DOMAIN p, string_format)

-----------------------------------------------------------------------------
(* The parser: src/src/polynomial/parsing.rs *)

IsWhitespace(c) == c \in {" ", "\t", "\n"}

Digits == {DigitChars[d] : d \in 1..10}

\* The class [0-9.ij+\-/] of the coefficient group.
CoefficientChars == Digits \cup {".", "i", "j", "+", "-", "/"}

\* A capture group that took no part in the match.
NoCapture == <<>>

\* The character at position i, "" past the end.
At(s, i) == IF i <= Len(s) THEN s[i] ELSE ""

\* The end of the longest run of characters of S that starts at i.
RECURSIVE RunEnd(_, _, _)
RunEnd(s, i, S) == IF i <= Len(s) /\ s[i] \in S THEN RunEnd(s, i + 1, S) ELSE i

\* A match of term_pat that has consumed nothing yet: its groups and its end.
MatchStart(i) ==
    [bracket_sign |-> NoCapture, opening_bracket |-> FALSE,
     coefficient |-> NoCapture, closing_bracket |-> FALSE,
     indeterminate |-> FALSE, exponent |-> NoCapture, start |-> i, end |-> i]

\* ((?<bracket_sign>[+-])?(?<opening_bracket>\())? : a sign only before "(".
OpeningGroup(s, m) ==
    IF At(s, m.end) \in {"+", "-"} /\ At(s, m.end + 1) = "("
    THEN [m EXCEPT !.bracket_sign = <<At(s, m.end)>>, !.opening_bracket = TRUE,
                   !.end = m.end + 2]
    ELSE IF At(s, m.end) = "("
    THEN [m EXCEPT !.opening_bracket = TRUE, !.end = m.end + 1]
    ELSE m

CoefficientUpTo(s, m, j) == [m EXCEPT !.coefficient = SubSeq(s, m.end, j - 1), !.end = j]

\* (?<coefficient>[0-9.ij+\-/]+)?
CoefficientGroup(s, m) == CoefficientUpTo(s, m, RunEnd(s, m.end, CoefficientChars))

\* (?<closing_bracket>\))?
ClosingGroup(s, m) ==
    IF At(s, m.end) = ")" THEN [m EXCEPT !.closing_bracket = TRUE, !.end = m.end + 1]
    ELSE m

\* \*?
Asterisk(s, m) == IF At(s, m.end) = "*" THEN [m EXCEPT !.end = m.end + 1] ELSE m

\* (?<indeterminate>x)?
IndeterminateGroup(s, m) ==
    IF At(s, m.end) = "x" THEN [m EXCEPT !.indeterminate = TRUE, !.end = m.end + 1]
    ELSE m

\* The position after an optional character c at j.
SkipChar(s, j, c) == IF At(s, j) = c THEN j + 1 ELSE j

ExponentUpTo(s, m, from, to) ==
    IF to = from THEN m
    ELSE [m EXCEPT !.exponent = SubSeq(s, from, to - 1), !.end = SkipChar(s, to, "}")]

ExponentFrom(s, m, from) == ExponentUpTo(s, m, from, RunEnd(s, from, Digits))

\* (\^?\{?(?<exponent>\d+)}?)? : without a digit the group takes nothing.
ExponentGroup(s, m) == ExponentFrom(s, m, SkipChar(s, SkipChar(s, m.end, "^"), "{"))

\* The match of term_pat that starts at position i.  Every part is optional
\* and greedy, so the match is built from left to right.
MatchTerm(s, i) ==
    ExponentGroup(s,
        IndeterminateGroup(s,
            Asterisk(s,
                ClosingGroup(s,
                    CoefficientGroup(s,
                        OpeningGroup(s, MatchStart(i)))))))

\* The value of a string of digits (str::parse::<u32>).
RECURSIVE ParseNat(_)
ParseNat(ds) ==
    IF ds = <<>> THEN 0
    ELSE 10 * ParseNat(SubSeq(ds, 1, Len(ds) - 1))
         + (CHOOSE d \in 0..9 : DigitChars[d + 1] = ds[Len(ds)])

PolynomialParsingError(message) == [ok |-> FALSE, error |-> message]

BracketNotClosed == "the bracket was not closed in the term"
CouldNotParse == "could not parse as a coefficient"

\* The digits of `body` with the point at `point` (past the end: no point).
DecimalValue(body, negative, point) ==
    [ok |-> TRUE,
     value |-> Norm((IF negative THEN -1 ELSE 1)
                    * ParseNat(SubSeq(body, 1, point - 1)
                               \o SubSeq(body, point + 1, Len(body)))
                    * Pow2(FracBits),
                    IntPow(10, IF point > Len(body) THEN 0 ELSE Len(body) - point))]

ParseDecimal(body, negative, points) ==
    IF /\ \A i \in 1..Len(body) : body[i] \in Digits \cup {"."}
       /\ Cardinality(points) <= 1
       /\ Len(body) > Cardinality(points)
    THEN DecimalValue(body, negative,
                      IF points = {} THEN Len(body) + 1 ELSE SetMin(points))
    ELSE PolynomialParsingError(CouldNotParse)

ParseUnsigned(body, negative) ==
    ParseDecimal(body, negative, {i \in 1..Len(body) : body[i] = "."})

\* parse_coefficient::<f64>: an optional sign, then digits with at most one
\* point and at least one digit; the value is the nearest coefficient.
parse_coefficient(cs) ==
    IF cs # <<>> /\ cs[1] \in {"+", "-"}
    THEN ParseUnsigned(Tail(cs), cs[1] = "-")
    ELSE ParseUnsigned(cs, FALSE)

\* The coefficient of one match, before the sign of the bracket.
CoefficientOf(m) ==
    IF m.coefficient = NoCapture \/ m.coefficient = <<"+">>
    THEN [ok |-> TRUE, value |-> One]
    ELSE IF m.coefficient = <<"-">> THEN [ok |-> TRUE, value |-> FNeg(One)]
    ELSE parse_coefficient(m.coefficient)

\* TermOf with the exponent 0 for every term without a written exponent.
TermOfWithoutIndeterminateCase(m, parsed_coefficient) ==
    IF ~parsed_coefficient.ok THEN parsed_coefficient
    ELSE [ok |-> TRUE,
          coefficient |-> IF m.bracket_sign # <<"-">> THEN parsed_coefficient.value
                          ELSE FNeg(parsed_coefficient.value),
          exponent |-> IF m.exponent # NoCapture THEN ParseNat(m.exponent) ELSE 0]

TermOf(m, parsed_coefficient) ==
    IF ~parsed_coefficient.ok THEN parsed_coefficient
    ELSE [ok |-> TRUE,
          coefficient |-> IF m.bracket_sign # <<"-">> THEN parsed_coefficient.value
                          ELSE FNeg(parsed_coefficient.value),
          exponent |-> IF m.exponent # NoCapture THEN ParseNat(m.exponent)
                       ELSE IF ~m.indeterminate THEN 0
                       ELSE 1]

\* The body of the `for` of from_str on one match: the term it adds.
ParseTerm(m) ==
    IF m.opening_bracket # m.closing_bracket
    THEN PolynomialParsingError(BracketNotClosed)
    ELSE TermOf(m, CoefficientOf(m))

RECURSIVE ParseLoop(_, _, _, _)

AddTerm(s, p, m, term) ==
    IF ~term.ok THEN term
    ELSE ParseLoop(s, m.end, m.end,
                   add_coefficient_at(p, term.exponent, term.coefficient))

\* captures_iter: an empty match at the end of the last match is dropped and
\* the search moves one character on.
NextMatch(s, start, last_end, p, first) ==
    IF first.end = start /\ last_end = start
    THEN IF start + 1 > Len(s) + 1 THEN [ok |-> TRUE, poly |-> p]
         ELSE AddTerm(s, p, MatchTerm(s, start + 1), ParseTerm(MatchTerm(s, start + 1)))
    ELSE AddTerm(s, p, first, ParseTerm(first))

\* The `for` of from_str: the search resumes where the last match ended.
\* last_end = 0 before the first match.
ParseLoop(s, start, last_end, p) ==
    IF start > Len(s) + 1 THEN [ok |-> TRUE, poly |-> p]
    ELSE NextMatch(s, start, last_end, p, MatchTerm(s, start))

\* The matches that captures_iter reports on s, in order: an empty match at
\* the end of the last match is dropped and the search moves one character on.
RECURSIVE CapturesIter(_, _, _)
CapturesIter(s, start, last_end) ==
    IF start > Len(s) + 1 THEN <<>>
    ELSE LET first == MatchTerm(s, start)
         IN  IF first.end = start /\ last_end = start
             THEN IF start + 1 > Len(s) + 1 THEN <<>>
                  ELSE LET next == MatchTerm(s, start + 1)
                       IN  <<next>> \o CapturesIter(s, next.end, next.end)
             ELSE <<first>> \o CapturesIter(s, first.end, first.end)

NonWhitespace(string) == SelectSeq(string, LAMBDA c : ~IsWhitespace(c))

\* from_str going into the loop on the empty string too.
from_str_without_empty_case(string) ==
    ParseLoop(NonWhitespace(string), 1, 0, zero)

from_str(string) ==
    IF NonWhitespace(string) = <<>> THEN [ok |-> TRUE, poly |-> zero]
    ELSE ParseLoop(NonWhitespace(string), 1, 0, zero)

-----------------------------------------------------------------------------
(* Rendering and parsing back a polynomial of the store machine *)

PolynomialFormat == {"Standard", "Latex", "Concise"}

\* poly.format_with(string_format), for a polynomial of finite coefficients.
FormatWith ==
    /\ text = <<>>
    /\ AllFinite(poly)
    /\ \E string_format \in PolynomialFormat :
          text' = [of |-> poly, format |-> string_format,
                   chars |-> write_to_fmt(poly, string_format)]
    /\ UNCHANGED <<storeVars, divVars, fin, fout, parsed>>

\* Polynomial::from_str of the rendering.
FromStr ==
    /\ text # <<>>
    /\ parsed = <<>>
    /\ parsed' = [of |-> text.of, format |-> text.format, input |-> text.chars,
                  result |-> from_str(text.chars)]
    /\ UNCHANGED <<storeVars, divVars, fin, fout, text>>

NextText ==
    \/ Next
    \/ FormatWith
    \/ FromStr

SpecText == Init /\ [][NextText]_vars

-----------------------------------------------------------------------------
(* The parser of src/src/lib.rs: Polynomial::from_string *)

\* The characters [ \n] of the pattern, also the ones removed before the
\* final comparison.
LibSpaces == {" ", "\n"}

InvalidStringFormat == "Invalid string format."

\* str::trim
RECURSIVE Trim(_)
Trim(s) ==
    IF s # <<>> /\ IsWhitespace(Head(s)) THEN Trim(Tail(s))
    ELSE IF s # <<>> /\ IsWhitespace(s[Len(s)]) THEN Trim(SubSeq(s, 1, Len(s) - 1))
    ELSE s

\* The string with a sign in front: the trimmed string when it starts with
\* one, "+ " and the string otherwise.
WithLeadingSign(string) ==
    IF Head(Trim(string)) \in {"+", "-"} THEN Trim(string)
    ELSE <<"+", " ">> \o string

\* (?<sign>[+-]) at position i: a match that has consumed its sign.
LibMatchStart(s, i) ==
    [sign |-> s[i], coefficient |-> NoCapture, variable |-> FALSE,
     power |-> NoCapture, start |-> i, end |-> i + 1]

\* [ \n]*
LibSpacesGroup(s, m) == [m EXCEPT !.end = RunEnd(s, m.end, LibSpaces)]

\* (?<coefficient>\d+(\.\d*)?)? : digits, then a point and digits.
LibCoefficientGroup(s, m) ==
    LET d == RunEnd(s, m.end, Digits)
    IN  IF d = m.end THEN m
        ELSE IF At(s, d) = "." THEN CoefficientUpTo(s, m, RunEnd(s, d + 1, Digits))
        ELSE CoefficientUpTo(s, m, d)

\* (?<variable>x)?
LibVariableGroup(s, m) ==
    IF At(s, m.end) = "x" THEN [m EXCEPT !.variable = TRUE, !.end = m.end + 1]
    ELSE m

\* (?:\^?(?<power>\d+))? : without a digit the group takes nothing.
LibPowerGroup(s, m) ==
    LET to == RunEnd(s, SkipChar(s, m.end, "^"), Digits)
    IN  IF to = SkipChar(s, m.end, "^") THEN m
        ELSE [m EXCEPT !.power = SubSeq(s, SkipChar(s, m.end, "^"), to - 1),
                       !.end = to]

\* The match of `pat` that starts at the sign at position i.  Every part
\* after the sign is optional and greedy.
LibMatchTerm(s, i) ==
    LibPowerGroup(s,
        LibVariableGroup(s,
            LibSpacesGroup(s,
                Asterisk(s,
                    LibSpacesGroup(s,
                        LibCoefficientGroup(s,
                            LibSpacesGroup(s, LibMatchStart(s, i))))))))

\* The position of the first sign at or after i, 0 when there is none.
RECURSIVE FindSign(_, _)
FindSign(s, i) ==
    IF i > Len(s) THEN 0
    ELSE IF s[i] \in {"+", "-"} THEN i
    ELSE FindSign(s, i + 1)

WithoutSpaces(s) == SelectSeq(s, LAMBDA c : c \notin LibSpaces)

\* The coefficient of one match times its sign: 1.0 when no coefficient
\* was captured.
LibCoefficientOf(m) ==
    FMul(IF m.coefficient = NoCapture THEN One
         ELSE ParseUnsigned(m.coefficient, FALSE).value,
         IF m.sign = "-" THEN -One ELSE One)

LibPowerOf(m) ==
    IF m.power # NoCapture THEN ParseNat(m.power)
    ELSE IF ~m.variable THEN 0
    ELSE 1

\* The `for` of from_string from position `start` on, then the comparison of
\* the captured terms with the string.  The search for the next match resumes
\* where the last match ended.
RECURSIVE LibParseLoop(_, _, _, _)
LibParseLoop(s, start, p, captured_terms) ==
    IF FindSign(s, start) = 0
    THEN IF WithoutSpaces(captured_terms) = WithoutSpaces(s)
         THEN [ok |-> TRUE, poly |-> p]
         ELSE [ok |-> FALSE, error |-> InvalidStringFormat]
    ELSE LET m == LibMatchTerm(s, FindSign(s, start))
         IN  IF m.coefficient = NoCapture /\ ~m.variable
             THEN [ok |-> FALSE, error |-> InvalidStringFormat]
             ELSE LibParseLoop(s, m.end,
                      set_coefficient_at(p, LibPowerOf(m), LibCoefficientOf(m)),
                      captured_terms \o SubSeq(s, m.start, m.end - 1))

\* The matches that captures_iter reports on s, in order.
RECURSIVE LibCapturesIter(_, _)
LibCapturesIter(s, start) ==
    IF FindSign(s, start) = 0 THEN <<>>
    ELSE LET m == LibMatchTerm(s, FindSign(s, start))
         IN  <<m>> \o LibCapturesIter(s, m.end)

from_string(string) ==
    IF Trim(string) = <<>> THEN [ok |-> TRUE, poly |-> zero]
    ELSE LibParseLoop(WithLeadingSign(string), 1, zero, <<>>)

-----------------------------------------------------------------------------
(* Parsing of strings *)

\* The strings given to the parsers: up to MaxText characters of a digit,
\* the indeterminate, another letter, the caret, the signs, the point and
\* the space.
InitParse ==
    /\ \E string \in SeqsUpTo({"2", "x", "y", "^", "+", "-", ".", " "}, MaxText) :
          text = [of |-> zero, format |-> "input", chars |-> string]
    /\ parsed = <<>>
    /\ fin = <<>>
    /\ fout = [fn |-> "none", val |-> 0]
    /\ failure = ""
    /\ pc = "idle" /\ numerator = zero /\ denominator = zero /\ quotient = zero
    /\ n0 = zero /\ iters = 0 /\ parity = 0 /\ trace = <<>> /\ exact = TRUE
    /\ InitStoreIdle

\* Polynomial::from_string(string) of lib.rs.
FromString ==
    /\ fout.fn = "none"
    /\ Returned("from_string", from_string(text.chars))

NextParse ==
    \/ FromStr
    \/ FromString

SpecParse == InitParse /\ [][NextParse]_vars

-----------------------------------------------------------------------------
(* Rendering of polynomials built by set_coefficient_at in any order *)

\* Display::fmt, the source of to_string().
to_string(p) == write_to_fmt(p, "Standard")

InitRender ==
    /\ pc = "idle" /\ numerator = zero /\ denominator = zero /\ quotient = zero
    /\ n0 = zero /\ iters = 0 /\ parity = 0 /\ trace = <<>> /\ exact = TRUE
    /\ fin = <<>> /\ fout = [fn |-> "none", val |-> 0]
    /\ text = <<>> /\ parsed = <<>>
    /\ failure = ""
    /\ InitStoreIdle

\* poly.set_coefficient_at(power, coefficient); `trace` keeps the order of
\* the insertions.
Insert ==
    /\ text = <<>> /\ fout.fn = "none"
    /\ Len(trace) < MaxLen
    /\ \E power \in Powers, coefficient \in {0, One, -One, One + Pow2(FracBits - 1)} :
          /\ poly' = set_coefficient_at(poly, power, coefficient)
          /\ trace' = Append(trace, power)
          /\ op' = "set_coefficient_at" /\ pre' = poly
          /\ scalar' = coefficient /\ expo' = power
    /\ UNCHANGED <<arg, vec, failure, steps, fnVars>>
    /\ UNCHANGED <<pc, numerator, denominator, quotient, n0, iters, parity, exact>>

\* poly.to_string()
CallToString ==
    /\ fout.fn = "none"
    /\ Returned("to_string", to_string(poly))

NextRender ==
    \/ Insert
    \/ FormatWith
    \/ CallToString

SpecRender == InitRender /\ [][NextRender]_vars

-----------------------------------------------------------------------------
(* Rendering of Polynomial<Ratio<T>>: a coefficient is [numer, denom], reduced,
   with a positive denominator *)

\* format_coefficient of Ratio<T>.
ratio_format_coefficient(c, is_leading_term, is_last_term, string_format) ==
    (IF is_leading_term /\ c.numer < 0 THEN <<"-", " ">>
     ELSE IF ~is_leading_term THEN <<" ", IF c.numer < 0 THEN "-" ELSE "+", " ">>
     ELSE <<>>)
    \o (IF c.numer # c.denom \/ is_last_term
        THEN IF string_format = "Latex"
             THEN <<"\\", "f", "r", "a", "c", "{">> \o FormatNat(Abs(c.numer))
                  \o <<"}", "{">> \o FormatNat(Abs(c.denom)) \o <<"}">>
             ELSE FormatNat(Abs(c.numer)) \o <<"/">> \o FormatNat(Abs(c.denom))
        ELSE <<>>)
    \o (IF ~is_last_term
        THEN IF string_format = "Latex" THEN <<"\\", "c", "d", "o", "t">> ELSE <<"*">>
        ELSE <<>>)

\* The loop of write_to_fmt over the powers `keys` of a polynomial of
\* rationals, from the highest down.
RECURSIVE RatioWriteLoop(_, _, _)
RatioWriteLoop(p, keys, string_format) ==
    IF keys = {} THEN <<>>
    ELSE LET power == SetMax(keys)
             term  == IF p[power].numer = 0 THEN <<>>
                      ELSE ratio_format_coefficient(p[power], power = degree(p),
                                                    power = 0, string_format)
                           \o FormatPower(power, string_format)
         IN  term \o RatioWriteLoop(p, keys \ {power}, string_format)

ratio_write_to_fmt(p, string_format) ==
    IF degree(p) = None THEN <<"0">>
    ELSE RatioWriteLoop(p, DOMAIN p, string_format)

\* Polynomial::from_coefficients of a vector of rationals: the zeros are not
\* stored.
ratio_from_coefficients(coefficients) ==
    [power \in {Len(coefficients) - i : i \in {j \in DOMAIN coefficients :
                                                 coefficients[j].numer # 0}}
        |-> coefficients[Len(coefficients) - power]]

\* Polynomial::from_coefficients of rationals among 0, 1, -1, 1/2 and -3/2.
InitRatio ==
    /\ vec \in SeqsUpTo({[numer |-> 0, denom |-> 1], [numer |-> 1, denom |-> 1],
                         [numer |-> -1, denom |-> 1], [numer |-> 1, denom |-> 2],
                         [numer |-> -3, denom |-> 2]}, MaxLen)
    /\ poly = ratio_from_coefficients(vec)
    /\ arg = zero /\ scalar = 0 /\ expo = 0
    /\ op = "from_coefficients" /\ pre = zero /\ failure = "" /\ steps = 0
    /\ InitIdle

\* poly.format_with(string_format) of the polynomial of rationals.
RatioFormatWith ==
    /\ text = <<>>
    /\ \E string_format \in PolynomialFormat :
          text' = [of |-> poly, format |-> string_format,
                   chars |-> ratio_write_to_fmt(poly, string_format)]
    /\ UNCHANGED <<storeVars, divVars, fin, fout, parsed>>

NextRatio == RatioFormatWith

SpecRatio == InitRatio /\ [][NextRatio]_vars

-----------------------------------------------------------------------------
(* Properties *)

\* C1 (as claimed): after any sequence of public operations no exponent of
\* the coefficient map holds a coefficient equal to zero.
SparsityInvariant == \A k \in DOMAIN poly : poly[k] # 0

\* The coefficient of Q*D + R at exponent k, in exact arithmetic, in units
\* of 2^-(2*FracBits).
ExactRecomposed(k) ==
    LET Prod[i \in -1..k] ==
            IF i < 0 THEN 0
            ELSE Prod[i - 1] + get_coefficient_at(quotient, i)
                               * get_coefficient_at(denominator, k - i)
    IN  Prod[k] + get_coefficient_at(numerator, k) * Pow2(FracBits)

RemainderIsSmall ==
    is_zero(numerator) \/ degree(numerator) < degree(denominator)

\* C2 (as claimed): the quotient Q and the remainder R returned by N / D
\* satisfy N == Q*D + R, and R is zero or degree(R) < degree(D).
DivisionCorrect ==
    pc = "done" =>
        /\ add_in_place(multiply(quotient, denominator), numerator) = n0
        /\ RemainderIsSmall

\* C2 (amended): when N / D returns, R is zero or degree(R) < degree(D), and
\* N equals Q*D + R provided no coefficient operation of the loop rounded.
DivisionCorrectWhenExact ==
    pc = "done" =>
        /\ RemainderIsSmall
        /\ exact =>
             \A k \in AllPowers :
                 get_coefficient_at(n0, k) * Pow2(FracBits) = ExactRecomposed(k)

\* C2 witness: a division of at least two iterations, all exact, returned a
\* quotient of two terms or more and a nonzero remainder.
DivisionCorrectWitness ==
    /\ pc = "done" /\ exact /\ iters >= 2
    /\ ~is_zero(numerator) /\ Cardinality(DOMAIN quotient) >= 2

\* The direct sum of coefficient[k] * x^k over the stored terms `keys`.
RECURSIVE DirectSum(_, _, _)
DirectSum(p, x, keys) ==
    IF keys = {} THEN 0
    ELSE LET k == SetMin(keys)
         IN  FAdd(FMul(p[k], FPow(x, k)), DirectSum(p, x, keys \ {k}))

\* C3 (as claimed): evaluate(x) equals the direct sum over the stored terms
\* of coefficient[k] * x^k, also when the lowest stored exponent is above 0.
EvaluateMatchesDirectSum ==
    fout.fn = "evaluate" => fout.val = DirectSum(P, fin.x, DOMAIN P)

\* C4 (as claimed): for every numerator and every nonzero divisor the loop of
\* divide_in_place reaches its exit and the call returns.
DivisionTerminates == <>(pc \in {"done", "panicked"})

\* v without its leading zero entries.
RECURSIVE StripLeadingZeros(_)
StripLeadingZeros(v) ==
    IF v = <<>> THEN <<>>
    ELSE IF Head(v) = 0 THEN StripLeadingZeros(Tail(v))
    ELSE v

\* C5: get_coefficients(from_coefficients(v)) is v without its leading zero
\* entries: v itself when v[1] is nonzero, empty when every entry is zero.
DenseRoundTrip ==
    fout.fn = "get_coefficients" =>
        /\ fout.val = StripLeadingZeros(fin.v)
        /\ (fin.v # <<>> /\ fin.v[1] # 0) => fout.val = fin.v
        /\ (\A i \in 1..Len(fin.v) : fin.v[i] = 0) => fout.val = <<>>

\* C5 witness: a vector with a leading zero, then a nonzero entry, then a
\* trailing zero came back without the leading zero and with the trailing one.
DenseRoundTripWitness ==
    /\ fout.fn = "get_coefficients"
    /\ Len(fin.v) = 3 /\ fin.v[1] = 0 /\ fin.v[2] # 0 /\ fin.v[3] = 0
    /\ fout.val = <<fin.v[2], 0>>

\* C6 (as claimed): for every polynomial p of real coefficients, parsing the
\* Standard rendering of p succeeds and yields a polynomial equal to p; the
\* zero polynomial is rendered as "0".
StringRoundTrip ==
    /\ (text # <<>> /\ text.format = "Standard" /\ text.of = zero) =>
           text.chars = <<"0">>
    /\ (parsed # <<>> /\ parsed.format = "Standard") =>
           parsed.result = [ok |-> TRUE, poly |-> parsed.of]

\* The round trip on the polynomials that hold no zero coefficient.
StringRoundTripSparse ==
    (/\ parsed # <<>> /\ parsed.format = "Standard"
     /\ \A k \in DOMAIN parsed.of : parsed.of[k] # 0) =>
        parsed.result = [ok |-> TRUE, poly |-> parsed.of]

\* A polynomial of three terms, one of them negative and fractional, was
\* rendered and parsed back to itself.
StringRoundTripSparseWitness ==
    /\ parsed # <<>> /\ parsed.format = "Standard"
    /\ Cardinality(DOMAIN parsed.of) = 3
    /\ \E k \in DOMAIN parsed.of : parsed.of[k] < 0 /\ parsed.of[k] % One # 0
    /\ parsed.result = [ok |-> TRUE, poly |-> parsed.of]

\* C7: after coefficient mutations, degree() is None exactly when every
\* coefficient is zero, and otherwise the highest exponent with a nonzero
\* coefficient; degree(from_coefficients(v)) = len(v) - 1 when v[1] # 0.
DegreeLaw ==
    /\ (degree(poly) = None) <=> (\A k \in AllPowers : get_coefficient_at(poly, k) = 0)
    /\ degree(poly) # None =>
         /\ get_coefficient_at(poly, degree(poly)) # 0
         /\ \A k \in AllPowers : k > degree(poly) => get_coefficient_at(poly, k) = 0
    /\ (op = "from_coefficients" /\ vec # <<>> /\ vec[1] # 0) =>
         degree(poly) = Len(vec) - 1

\* C7 witness: a zero coefficient was set above the degree of a nonzero
\* polynomial and the degree stayed.
DegreeLawWitness ==
    /\ op = "set_coefficient_at" /\ scalar = 0
    /\ degree(pre) # None /\ expo > degree(pre)
    /\ degree(poly) = degree(pre)

DivisionFailure == {PanicZeroPolynomial, PanicZeroScalar}

\* C8 (as claimed): polynomial division or remainder by the zero polynomial,
\* and division by the scalar zero, fails with a "Cannot divide" failure.
DivisionByZeroFails ==
    /\ (op \in {"div_assign", "rem_assign"} /\ is_zero(arg)) =>
           failure \in DivisionFailure
    /\ (op \in {"div_assign_scalar", "lib_div_assign_scalar"} /\ scalar = 0) =>
           failure \in DivisionFailure

\* C9: when an in-place division (/= or %= by a polynomial, /= by a scalar)
\* fails because the divisor is zero, the left operand holds exactly the
\* coefficients it held before the call.
NoCorruptionOnFailedDivision ==
    (op \in {"div_assign", "rem_assign", "div_assign_scalar"} /\ failure # "") =>
        poly = pre

\* C9 witness: /= by the scalar zero failed on a nonzero polynomial.
NoCorruptionWitness ==
    /\ op = "div_assign_scalar" /\ scalar = 0 /\ failure = PanicZeroScalar
    /\ ~is_zero(pre) /\ poly = pre

\* The sum over i + j = k of coefficient(p, i) * coefficient(q, j), i ascending.
ConvolutionSum(p, q, k) ==
    LET Acc[i \in -1..k] ==
            IF i < 0 THEN 0
            ELSE FAdd(Acc[i - 1],
                      FMul(get_coefficient_at(p, i), get_coefficient_at(q, k - i)))
    IN  Acc[k]

\* C10: the coefficient of p * q at every exponent k is the sum over
\* i + j = k of coefficient(p, i) * coefficient(q, j), and an exponent whose
\* sum is zero is not stored.
MultiplicationIsConvolution ==
    fout.fn = "multiply" =>
        \A k \in AllPowers :
            /\ get_coefficient_at(fout.val, k) = ConvolutionSum(P, Q, k)
            /\ (k \in DOMAIN fout.val) <=> (ConvolutionSum(P, Q, k) # 0)

\* C10 witness: two binomials were multiplied and the middle term cancelled.
MultiplicationWitness ==
    /\ fout.fn = "multiply"
    /\ Cardinality(DOMAIN P) = 2 /\ Cardinality(DOMAIN Q) = 2
    /\ DOMAIN fout.val = {0, 2}

\* C11: p *= 0 (and p * 0, the same function) leaves the zero polynomial: the
\* map is empty, is_zero() holds and the result equals Polynomial::zero(),
\* whatever p was.
ScalarZeroGivesZero ==
    (op = "mul_assign_scalar" /\ scalar = 0)
        => (DOMAIN poly = {} /\ is_zero(poly) /\ poly = zero)

\* C11 witness: a polynomial of three stored terms was multiplied by zero.
ScalarZeroWitness ==
    /\ op = "mul_assign_scalar" /\ scalar = 0
    /\ Cardinality(DOMAIN pre) = 3
    /\ poly = zero

\* C12: the coefficient of derivative(p) at every exponent k is the
\* coefficient of p at k + 1 times (k + 1); the constant term contributes
\* nothing and no exponent below zero (a wrapped u32) appears in the result.
DerivativeDefinition ==
    op = "derivative"
        => /\ DOMAIN poly \subseteq AllPowers
           /\ \A k \in AllPowers :
                  get_coefficient_at(poly, k)
                      = FMul(get_coefficient_at(pre, k + 1), FromU32(k + 1))

\* C12 witness: a polynomial with a constant term and a term of exponent 2
\* was differentiated, and the derivative is not zero.
DerivativeWitness ==
    /\ op = "derivative"
    /\ {0, 2} \subseteq DOMAIN pre
    /\ 1 \in DOMAIN poly
    /\ poly[1] = FMul(pre[2], 2 * One)

\* Every coefficient operation of derivative(p + q) and of
\* derivative(p) + derivative(q) returns its exact result.
LinearityExact(p, q) ==
    \A k \in (DOMAIN p \cup DOMAIN q) \ {0} :
        LET a == get_coefficient_at(p, k)
            b == get_coefficient_at(q, k)
        IN  /\ Representable(FromU32(k)) /\ FromU32(k) = k * One
            /\ AddExact(a, b)
            /\ MulExact(a + b, k * One)
            /\ MulExact(a, k * One)
            /\ MulExact(b, k * One)

\* C13 (as claimed): derivative(p + q) and derivative(p) + derivative(q) are
\* equal polynomials, for all p and q.
DerivativeLinear ==
    fout.fn = "derivative" => fout.val.of_sum = fout.val.sum_of

\* C13 (amended): derivative(p + q) and derivative(p) + derivative(q) are
\* equal polynomials whenever no coefficient sum or product involved rounds.
DerivativeLinearWhenExact ==
    (fout.fn = "derivative" /\ LinearityExact(Poly1, Poly2))
        => fout.val.of_sum = fout.val.sum_of

\* C13 witness: both operands hold a term of exponent 2 and a term of
\* exponent 1, every operation is exact, and the two derivatives agree on a
\* polynomial of two terms.
DerivativeLinearWitness ==
    /\ fout.fn = "derivative"
    /\ LinearityExact(Poly1, Poly2)
    /\ {1, 2} \subseteq DOMAIN Poly1 /\ {1, 2} \subseteq DOMAIN Poly2
    /\ fout.val.of_sum = fout.val.sum_of
    /\ DOMAIN fout.val.of_sum = {0, 1}

\* The coefficient of `sum` at every exponent is the f64 sum of the
\* coefficients of p and q there.
TermWise(sum, p, q) ==
    \A k \in AllPowers :
        get_coefficient_at(sum, k)
            = FAdd(get_coefficient_at(p, k), get_coefficient_at(q, k))

\* C14 (as claimed): the coefficient of p + q at every exponent k is
\* coefficient(p, k) + coefficient(q, k), p + q and q + p are equal
\* polynomials, and p += q leaves the same result in p.
AdditionTermWiseCommutative ==
    /\ fout.fn = "add"
           => /\ TermWise(fout.val.sum, Poly1, Poly2)
              /\ fout.val.sum = fout.val.swapped
    /\ fout.fn = "add_assign"
           => /\ TermWise(fout.val, Poly1, Poly2)
              /\ fout.val = add_in_place(Poly2, Poly1)

\* C14, on operands that store no zero coefficient.
AdditionTermWiseCommutativeSparse ==
    (/\ \A k \in DOMAIN Poly1 : Poly1[k] # 0
     /\ \A k \in DOMAIN Poly2 : Poly2[k] # 0)
        => AdditionTermWiseCommutative

\* C14, the term-wise part alone.
AdditionTermWise ==
    /\ fout.fn = "add" => TermWise(fout.val.sum, Poly1, Poly2)
    /\ fout.fn = "add_assign" => TermWise(fout.val, Poly1, Poly2)

\* C15: after set_coefficient_at(p, v) the coefficient read at p is v (and
\* for v = 0 no entry is left at p), the coefficient read at every other
\* exponent is what it was before, and get_coefficient_at returns zero at
\* every exponent that holds no term.
StoreContract ==
    /\ op = "set_coefficient_at"
           => /\ get_coefficient_at(poly, expo) = scalar
              /\ scalar = 0 => expo \notin DOMAIN poly
              /\ \A q \in AllPowers \ {expo} :
                     get_coefficient_at(poly, q) = get_coefficient_at(pre, q)
    /\ \A k \in AllPowers \ DOMAIN poly : get_coefficient_at(poly, k) = 0

\* C15 witness: zero was set at a stored exponent of a polynomial of several
\* terms, and the other terms are still there.
StoreContractWitness ==
    /\ op = "set_coefficient_at" /\ scalar = 0
    /\ expo \in DOMAIN pre
    /\ Cardinality(DOMAIN pre) >= 2
    /\ DOMAIN poly = DOMAIN pre \ {expo}

\* The stripped string that from_str scans, and its reported matches.
StrInput == NonWhitespace(parsed.input)
StrCaptures == CapturesIter(StrInput, 1, 0)

\* The signed string that from_string scans, and its reported matches.
LibInput == WithLeadingSign(text.chars)
LibCaptures == LibCapturesIter(LibInput, 1)

FromStrDone == parsed # <<>>
FromStringDone == fout.fn = "from_string"

\* Some non-whitespace character of s lies in none of the matches ms.
Unmatched(s, ms) ==
    \E i \in 1..Len(s) :
        /\ ~IsWhitespace(s[i])
        /\ \A j \in 1..Len(ms) : ~(ms[j].start <= i /\ i < ms[j].end)

\* C16 (as claimed): parsing fails for every input in which some
\* non-whitespace character is not part of a matched term.
StrictValidation ==
    /\ (FromStrDone /\ Unmatched(StrInput, StrCaptures))
           => ~parsed.result.ok
    /\ (FromStringDone /\ Trim(text.chars) # <<>> /\ Unmatched(LibInput, LibCaptures))
           => ~fout.val.ok

\* C16, for from_string of lib.rs alone.
LibStrictValidation ==
    (FromStringDone /\ Trim(text.chars) # <<>> /\ Unmatched(LibInput, LibCaptures))
        => ~fout.val.ok

\* A match of term_pat with no coefficient literal and no indeterminate.
BareTerm(m) ==
    m.coefficient \in {NoCapture, <<"+">>, <<"-">>} /\ ~m.indeterminate

\* A match of the pattern of lib.rs with no coefficient and no variable.
LibBareTerm(m) == m.coefficient = NoCapture /\ ~m.variable

\* C17 (as claimed): parsing fails for every input that contains a term with
\* neither a coefficient nor an indeterminate; such a term is never counted
\* as a term of coefficient one.
BareTermFails ==
    /\ (FromStrDone /\ StrInput # <<>>
            /\ \E j \in 1..Len(StrCaptures) : BareTerm(StrCaptures[j]))
           => ~parsed.result.ok
    /\ (FromStringDone /\ Trim(text.chars) # <<>>
            /\ \E j \in 1..Len(LibCaptures) : LibBareTerm(LibCaptures[j]))
           => ~fout.val.ok

\* C17, for from_string of lib.rs alone.
LibBareTermFails ==
    (FromStringDone /\ Trim(text.chars) # <<>>
        /\ \E j \in 1..Len(LibCaptures) : LibBareTerm(LibCaptures[j]))
        => ~fout.val.ok

\* The f64 sum, in input order, of the coefficients of the terms of ms whose
\* exponent is k.
RECURSIVE TermSum(_, _)
TermSum(ms, k) ==
    IF ms = <<>> THEN 0
    ELSE FAdd(TermSum(SubSeq(ms, 1, Len(ms) - 1), k),
              IF ParseTerm(ms[Len(ms)]).exponent = k
              THEN ParseTerm(ms[Len(ms)]).coefficient ELSE 0)

RECURSIVE LibTermSum(_, _)
LibTermSum(ms, k) ==
    IF ms = <<>> THEN 0
    ELSE FAdd(LibTermSum(SubSeq(ms, 1, Len(ms) - 1), k),
              IF LibPowerOf(ms[Len(ms)]) = k
              THEN LibCoefficientOf(ms[Len(ms)]) ELSE 0)

\* C18, for from_str of parsing.rs: the coefficient of an accepted input at
\* every exponent is the sum of its terms with that exponent.
StrTermsAccumulate ==
    (FromStrDone /\ StrInput # <<>> /\ parsed.result.ok)
        => \A k \in DOMAIN parsed.result.poly
                    \cup {ParseTerm(StrCaptures[j]).exponent : j \in 1..Len(StrCaptures)} :
               get_coefficient_at(parsed.result.poly, k) = TermSum(StrCaptures, k)

\* C18, for from_string of lib.rs.
LibTermsAccumulate ==
    (FromStringDone /\ Trim(text.chars) # <<>> /\ fout.val.ok)
        => \A k \in DOMAIN fout.val.poly
                    \cup {LibPowerOf(LibCaptures[j]) : j \in 1..Len(LibCaptures)} :
               get_coefficient_at(fout.val.poly, k) = LibTermSum(LibCaptures, k)

\* C18 (as claimed): when the input holds several terms of one exponent, the
\* coefficient of the parsed polynomial at that exponent is their sum; a term
\* never overwrites an earlier one, and terms that cancel leave no entry.
RepeatedTermsAccumulate ==
    /\ StrTermsAccumulate
    /\ LibTermsAccumulate
    /\ FromStrDone /\ parsed.result.ok
           => \A k \in DOMAIN parsed.result.poly : parsed.result.poly[k] # 0
    /\ FromStringDone /\ fout.val.ok
           => \A k \in DOMAIN fout.val.poly : fout.val.poly[k] # 0

\* Terms written with a default, the exponent and the coefficient they stand
\* for: x, x^2, x2, 2 and 2x.
DefaultedTerms ==
    {[body |-> <<"x">>,           exponent |-> 1, coefficient |-> One],
     [body |-> <<"x", "^", "2">>, exponent |-> 2, coefficient |-> One],
     [body |-> <<"x", "2">>,      exponent |-> 2, coefficient |-> One],
     [body |-> <<"2">>,           exponent |-> 0, coefficient |-> 2 * One],
     [body |-> <<"2", "x">>,      exponent |-> 1, coefficient |-> 2 * One]}

\* The polynomial of the single term t under the sign `negative`.
SingleTerm(t, negative) ==
    set_coefficient_at(zero, t.exponent,
                       IF negative THEN -t.coefficient ELSE t.coefficient)

\* C19: a term without a coefficient has the coefficient one under the sign
\* of the term; an accepted term with no indeterminate and no exponent has
\* the exponent 0, and one with an indeterminate and no exponent has the
\* exponent 1.
TermDefaults ==
    \A t \in DefaultedTerms, sign \in {<<>>, <<"+">>, <<"-">>} :
        /\ (FromStrDone /\ StrInput = sign \o t.body)
               => parsed.result = [ok |-> TRUE, poly |-> SingleTerm(t, sign = <<"-">>)]
        /\ (FromStringDone /\ NonWhitespace(text.chars) = sign \o t.body /\ fout.val.ok)
               => fout.val.poly = SingleTerm(t, sign = <<"-">>)

\* C19 witness: both parsers took "-x" for the polynomial -x.
TermDefaultsWitness ==
    /\ FromStrDone /\ FromStringDone
    /\ text.chars = <<"-", "x">>
    /\ parsed.result = [ok |-> TRUE, poly |-> (1 :> -One)]
    /\ fout.val = [ok |-> TRUE, poly |-> (1 :> -One)]

\* C20: the empty string and every string of whitespace alone parse to the
\* zero polynomial.
EmptyParsesToZero ==
    /\ (FromStrDone /\ \A i \in 1..Len(parsed.input) : IsWhitespace(parsed.input[i]))
           => parsed.result = [ok |-> TRUE, poly |-> zero]
    /\ (FromStringDone /\ \A i \in 1..Len(text.chars) : IsWhitespace(text.chars[i]))
           => fout.val = [ok |-> TRUE, poly |-> zero]

\* C20 witness: both parsers took a string of two spaces for zero.
EmptyParsesToZeroWitness ==
    /\ FromStrDone /\ FromStringDone
    /\ text.chars = <<" ", " ">>
    /\ parsed.result.ok /\ is_zero(parsed.result.poly)
    /\ fout.val.ok /\ is_zero(fout.val.poly)

\* The number of places where the three characters `token` stand in chars.
Occurrences(chars, token) ==
    Cardinality({i \in 1..(Len(chars) - 2) : SubSeq(chars, i, i + 2) = token})

\* The exponents below the degree whose coefficient is positive / negative.
PositiveBelowDegree(p) == {k \in DOMAIN p : k # degree(p) /\ p[k] > 0}
NegativeBelowDegree(p) == {k \in DOMAIN p : k # degree(p) /\ p[k] < 0}

\* C21 (as claimed): the rendering of a nonzero polynomial starts with "- "
\* exactly when the leading coefficient is negative and otherwise starts with
\* no sign token; every non-leading term is preceded by " + " when positive
\* and by " - " when negative.
SignHandling ==
    (text # <<>> /\ degree(text.of) # None)
        => /\ (text.of[degree(text.of)] < 0)
                  <=> (Len(text.chars) >= 2 /\ SubSeq(text.chars, 1, 2) = <<"-", " ">>)
           /\ (text.of[degree(text.of)] >= 0 /\ text.chars # <<>>)
                  => text.chars[1] \notin {" ", "+", "-"}
           /\ Occurrences(text.chars, <<" ", "+", " ">>)
                  = Cardinality(PositiveBelowDegree(text.of))
           /\ Occurrences(text.chars, <<" ", "-", " ">>)
                  = Cardinality(NegativeBelowDegree(text.of))

\* C21, for polynomials that store no zero coefficient.
SignHandlingSparse ==
    (text # <<>> /\ \A k \in DOMAIN text.of : text.of[k] # 0) => SignHandling

\* One more character in front of the tokens of the rest of a string.
PushChar(c, tokens) ==
    IF c = " " THEN << <<>> >> \o tokens
    ELSE << <<c>> \o tokens[1] >> \o Tail(tokens)

\* The pieces of a string between its spaces.
RECURSIVE Tokens(_)
Tokens(chars) ==
    IF chars = <<>> THEN << <<>> >>
    ELSE PushChar(Head(chars), Tokens(Tail(chars)))

\* The terms of a rendering, without their signs.
TermBodies(chars) ==
    SelectSeq(Tokens(chars), LAMBDA t : t \notin {<<>>, <<"+">>, <<"-">>})

\* The printed coefficient value of a term body, and what follows it.
ValuePart(body) == SubSeq(body, 1, RunEnd(body, 1, Digits \cup {"."}) - 1)
IndeterminatePart(body) ==
    SubSeq(body, RunEnd(body, 1, Digits \cup {"."}), Len(body))

\* The elements of a set of exponents, from the highest down.
RECURSIVE Descending(_)
Descending(S) ==
    IF S = {} THEN <<>> ELSE <<SetMax(S)>> \o Descending(S \ {SetMax(S)})

\* The exponents of the nonzero coefficients of the rendered polynomial, from
\* the highest down, and the term bodies of its rendering.
RenderedPowers == Descending({k \in DOMAIN text.of : text.of[k] # 0})
RenderedBodies == TermBodies(text.chars)

\* C22: in every dialect a term of exponent >= 1 is rendered without its
\* coefficient value exactly when the absolute value of the coefficient is
\* one, and the constant term always prints its value, also when it is 1.
CoefficientOneElision ==
    (text # <<>> /\ degree(text.of) # None)
        => /\ Len(RenderedBodies) = Len(RenderedPowers)
           /\ \A i \in 1..Len(RenderedPowers) :
                  LET k == RenderedPowers[i]
                  IN  ValuePart(RenderedBodies[i])
                          = IF k >= 1 /\ Abs(text.of[k]) = One THEN <<>>
                            ELSE FormatAbs(text.of[k])

\* C22 witness: a polynomial with the coefficient -1 at exponent 2 and the
\* constant 1 was rendered as "- x" with its power and " + 1".
CoefficientOneElisionWitness ==
    /\ text # <<>>
    /\ DOMAIN text.of = {0, 2} /\ text.of[2] = -One /\ text.of[0] = One
    /\ RenderedBodies[1][1] = "x"
    /\ RenderedBodies[2] = <<"1">>

\* The indeterminate and its exponent as the dialect `string_format` writes
\* them for the exponent k.
ExpectedIndeterminate(k, string_format) ==
    CASE k = 0 -> <<>>
      [] k = 1 -> <<"x">>
      [] k >= 2 /\ string_format = "Standard" -> <<"x", "^", DigitChars[k + 1]>>
      [] k >= 2 /\ string_format = "Latex" -> <<"x", "^", "{", DigitChars[k + 1], "}">>
      [] k >= 2 /\ string_format = "Concise" -> <<"x", DigitChars[k + 1]>>

\* The terms of a rendering carry the exponents of the nonzero coefficients
\* in the form of the dialect.
ExponentForms ==
    /\ Len(RenderedBodies) = Len(RenderedPowers)
    /\ \A i \in 1..Len(RenderedPowers) :
           IndeterminatePart(RenderedBodies[i])
               = ExpectedIndeterminate(RenderedPowers[i], text.format)

\* C23 (as claimed): the zero polynomial renders as "0"; otherwise the
\* indeterminate part of a term is empty at exponent 0, "x" at exponent 1, and
\* for an exponent e >= 2 "x^e" in Standard, "x^{e}" in Latex and "xe" in
\* Concise; to_string() gives what format_with(Standard) gives.
ExponentRendering ==
    /\ text # <<>> =>
          IF \A k \in DOMAIN text.of : text.of[k] = 0
          THEN text.chars = <<"0">>
          ELSE ExponentForms
    /\ (text # <<>> /\ text.format = "Standard" /\ fout # <<>> /\ fout.fn = "to_string")
          => fout.val = text.chars

\* C23 restricted to polynomials that store no zero coefficient.
ExponentRenderingSparse ==
    (text # <<>> => \A k \in DOMAIN text.of : text.of[k] # 0) => ExponentRendering

\* C23: a polynomial with terms at the exponents 2, 1 and 0 was rendered,
\* and so was the zero polynomial after its only term was removed.
ExponentRenderingTerms ==
    /\ text # <<>> /\ text.format = "Latex" /\ DOMAIN text.of = {0, 1, 2}
    /\ fout.fn = "none"
ExponentRenderingTwice ==
    /\ text # <<>> /\ text.format = "Standard" /\ fout.fn = "to_string"
    /\ text.of # zero

\* The exponent that a term body of a rendering shows.
PowerOfBody(body) ==
    LET part == SelectSeq(IndeterminatePart(body), LAMBDA c : c \in Digits)
    IN  IF IndeterminatePart(body) = <<>> THEN 0
        ELSE IF part = <<>> THEN 1
        ELSE CHOOSE k \in 0..9 : DigitChars[k + 1] = part[1]

\* The polynomial with the terms of p, inserted from the lowest exponent up.
RECURSIVE InsertedAscending(_, _)
InsertedAscending(p, keys) ==
    IF keys = {} THEN zero
    ELSE set_coefficient_at(InsertedAscending(p, keys \ {SetMax(keys)}),
                            SetMax(keys), p[SetMax(keys)])

AssignFormsAgree ==
    (op \in {"div_assign", "rem_assign", "rem"} /\ failure = "")
        => /\ op = "div_assign" => poly = div(pre, arg).quotient
           /\ op = "rem_assign" => poly = div(pre, arg).remainder
           /\ op = "rem" => poly = div(pre, arg).remainder

\* C24 witnesses: a division with a nonzero quotient and a nonzero remainder
\* that differ was made by /=, by %= and by %.
AssignFormsAgreeWitness ==
    /\ op = "rem_assign" /\ failure = ""
    /\ ~is_zero(div(pre, arg).quotient) /\ ~is_zero(poly)
    /\ div(pre, arg).quotient # poly

\* The last iteration cancelled the leading term of the remainder and added a
\* nonzero single term of the exponent degree(R) - degree(D) to the quotient.
VariantStep ==
    /\ trace.after = None \/ trace.after < trace.before
    /\ DOMAIN trace.term = {trace.before - degree(denominator)}
    /\ \A k \in DOMAIN trace.term : trace.term[k] # 0

\* C26 (as claimed): each iteration of the division loop cancels the leading
\* term of R exactly, so that R is zero or of strictly smaller degree after
\* it, and the term it adds to Q is a nonzero single-term polynomial of the
\* exponent degree(R) - degree(D).
LoopVariant == (trace # <<>>) => VariantStep

\* C26 for iterations before which no coefficient operation has rounded.
LoopVariantWhenExact == (trace # <<>> /\ exact) => VariantStep

\* An exact iteration lowered the degree of a remainder that stayed nonzero.
LoopVariantWitness ==
    /\ trace # <<>> /\ exact /\ iters >= 2
    /\ trace.after # None /\ trace.after < trace.before

\* C27 (as claimed): the number of iterations of the division loop never
\* exceeds the product of the numbers of stored terms of the two operands.
StepBound ==
    iters <= Cardinality(DOMAIN n0) * Cardinality(DOMAIN denominator)

\* As long as no coefficient operation has rounded, the iterations are at most
\* degree(N) - degree(D) + 1.
StepBoundByDegreeWhenExact ==
    (exact /\ iters > 0) => iters <= degree(n0) - degree(denominator) + 1

\* get_coefficient_at returns equal values for p and q at every exponent.
SameCoefficients(p, q) ==
    \A k \in DOMAIN p \cup DOMAIN q : get_coefficient_at(p, k) = get_coefficient_at(q, k)

\* C28 (as claimed): two polynomials reached through the public operations
\* are equal under == exactly when get_coefficient_at returns equal values at
\* every exponent; a result whose coefficients are all zero equals
\* Polynomial::zero().
SemanticEquality ==
    /\ (poly = pre) <=> SameCoefficients(poly, pre)
    /\ SameCoefficients(poly, zero) => poly = zero

\* C28 for polynomials that store no zero coefficient.
SemanticEqualitySparse ==
    (\A k \in DOMAIN poly : poly[k] # 0) /\ (\A k \in DOMAIN pre : pre[k] # 0)
        => SemanticEquality

\* The numerator given to the division is zero or of lower degree than the
\* denominator.
LowDegree == is_zero(n0) \/ degree(n0) < degree(denominator)

\* C29: for a nonzero divisor D and a numerator N that is zero or of lower
\* degree than D, N / D performs no loop iteration, its quotient is the zero
\* polynomial and its remainder is N unchanged.
LowDegreeNumerator ==
    (pc \in {"loop", "done"} /\ LowDegree)
        => /\ iters = 0
           /\ ~LoopCondition(numerator, denominator)
           /\ quotient = zero
           /\ numerator = n0

\* C29 witness: the division of a nonzero numerator by a divisor of higher
\* degree has returned.
LowDegreeNumeratorWitness ==
    /\ pc = "done" /\ ~is_zero(n0) /\ degree(n0) < degree(denominator)
    /\ quotient = zero /\ numerator = n0

\* The multiplication marker of a dialect, and the character that ends a
\* printed coefficient value in it.
Marker(string_format) ==
    IF string_format = "Latex" THEN <<"\\", "c", "d", "o", "t">> ELSE <<"*">>
ValueEnd(string_format) ==
    IF string_format = "Latex" THEN {"}"} ELSE Digits

\* The places of a string where the marker of the dialect stands.
MarkerPlaces(chars, string_format) ==
    {i \in 1..Len(chars) :
        /\ i + Len(Marker(string_format)) - 1 <= Len(chars)
        /\ SubSeq(chars, i, i + Len(Marker(string_format)) - 1) = Marker(string_format)}

\* C30 (as claimed): in the rendering of rational coefficients the
\* multiplication marker stands only directly after a printed coefficient
\* value, so that a term with the coefficient one and an exponent >= 1 is
\* rendered as its indeterminate part alone.
MarkerOnlyAfterValue ==
    text # <<>> =>
        \A i \in MarkerPlaces(text.chars, text.format) :
            i > 1 /\ text.chars[i - 1] \in ValueEnd(text.format)

\* C30 for polynomials without the coefficient one at an exponent >= 1.
MarkerOnlyAfterValueWithoutOne ==
    (text # <<>> /\ \A k \in DOMAIN text.of : k >= 1 => text.of[k].numer # text.of[k].denom)
        => MarkerOnlyAfterValue

=============================================================================
